---- MODULE Spec2Model ----
(***************************************************************************)
(* Model of the Legal AI bot request pipeline: the four HTTP endpoints of  *)
(* app/routes.py and the helpers they call in app/utils.  One request is   *)
(* followed from its arrival to its response; every external call          *)
(* (OCR, speech-to-text, language model) and every local extraction        *)
(* strategy is one step whose outcome (a result or an exception) is chosen *)
(* nondeterministically.                                                   *)
(*                                                                         *)
(* Strings are sequences of one-character strings, so that lower(),        *)
(* strip(), splitext(), basename() and endswith() are computed as Python   *)
(* computes them.  Error messages are sequences of tokens built the way    *)
(* the f-strings of the source build them.                                 *)
(***************************************************************************)
EXTENDS Integers, Sequences, FiniteSets, TLC

VARIABLES
    pc,               \* position of the request in its handler
    req,              \* the request being served
    resp,             \* the response (status 0: none yet)
    calls,            \* log of strategy invocations and external calls, in order
    fs,               \* temporary files on disk: set of [path, content]
    fileRead,         \* the upload's content has been read (file.read())
    text,             \* extract_text_from_file: text
    primaryErr,       \* extract_text_from_file: str(extraction_error), line 66
    transcript,       \* process_voice_message: transcript
    translated_text,  \* process_voice_message: translated_text
    summary_en,       \* process_voice_message: summary_en
    failures,         \* str(e) of every exception raised by a strategy, in order
    creq,             \* requests in flight at the same time: their locals
    cfs               \* the temporary files of the requests in flight

\* the variables of the request followed alone
seqVars == <<pc, req, resp, calls, fs, fileRead, text, primaryErr,
             transcript, translated_text, summary_en, failures>>

\* the variables of the requests in flight at the same time
concVars == <<creq, cfs>>

vars == <<seqVars, concVars>>

-----------------------------------------------------------------------------
(* Bounds of the model *)

MaxQLen == 11        \* longest question enumerated
MaxContentLen == 2   \* longest upload content enumerated (bytes)
MaxPages == 2        \* most pages an OCR response / a PDF has
NumRequests == 2     \* requests in flight at the same time

(* Program constant: routes.py, len(question.strip()) < 10 *)
MinQuestionLen == 10

-----------------------------------------------------------------------------
(* Python string functions *)

UpperChars == <<"A", "B", "C", "D", "E", "F", "G", "H", "I", "J", "K", "L", "M",
                "N", "O", "P", "Q", "R", "S", "T", "U", "V", "W", "X", "Y", "Z">>
LowerChars == <<"a", "b", "c", "d", "e", "f", "g", "h", "i", "j", "k", "l", "m",
                "n", "o", "p", "q", "r", "s", "t", "u", "v", "w", "x", "y", "z">>

LowerChar(c) ==
    IF \E i \in 1..Len(UpperChars) : UpperChars[i] = c
    THEN LowerChars[CHOOSE i \in 1..Len(UpperChars) : UpperChars[i] = c]
    ELSE c

\* str.lower()
Lower(s) == [i \in 1..Len(s) |-> LowerChar(s[i])]

IsSpace(c) == c \in {" ", "\t", "\n"}

RECURSIVE LStrip(_)
LStrip(s) ==
    IF s = <<>> THEN s
    ELSE IF IsSpace(Head(s)) THEN LStrip(Tail(s)) ELSE s

RECURSIVE RStrip(_)
RStrip(s) ==
    IF s = <<>> THEN s
    ELSE IF IsSpace(s[Len(s)]) THEN RStrip(SubSeq(s, 1, Len(s) - 1)) ELSE s

\* str.strip()
Strip(s) == RStrip(LStrip(s))

\* str.rfind(c), 1-based; 0 when c does not occur
RFind(s, c) ==
    IF \E i \in 1..Len(s) : s[i] = c
    THEN CHOOSE i \in 1..Len(s) : s[i] = c /\ \A j \in (i + 1)..Len(s) : s[j] # c
    ELSE 0

\* str.endswith(suffix)
EndsWith(s, suffix) ==
    /\ Len(suffix) <= Len(s)
    /\ SubSeq(s, Len(s) - Len(suffix) + 1, Len(s)) = suffix

\* os.path.splitext(p): <<root, ext>>.  The extension starts at the last dot
\* of the last path component, unless only dots precede it in the component.
SplitExt(p) ==
    LET sepIndex == RFind(p, "/")
        dotIndex == RFind(p, ".")
    IN  IF /\ dotIndex > sepIndex
           /\ \E k \in (sepIndex + 1)..(dotIndex - 1) : p[k] # "."
        THEN <<SubSeq(p, 1, dotIndex - 1), SubSeq(p, dotIndex, Len(p))>>
        ELSE <<p, <<>> >>

\* os.path.basename(p)
BaseName(p) == SubSeq(p, RFind(p, "/") + 1, Len(p))

\* os.path.join(dir, name), name not absolute
PathJoin(dir, name) == dir \o <<"/">> \o name

RECURSIVE Join(_, _)
\* sep.join(parts), parts a sequence of strings
Join(sep, parts) ==
    IF parts = <<>> THEN <<>>
    ELSE IF Len(parts) = 1 THEN parts[1]
    ELSE parts[1] \o sep \o Join(sep, Tail(parts))

\* s occurs in t as a contiguous piece
Contains(t, s) ==
    \E i \in 0..(Len(t) - Len(s)) : SubSeq(t, i + 1, i + Len(s)) = s

\* all sequences over S of length at most n
SeqsUpTo(S, n) == UNION {[1..k -> S] : k \in 0..n}

-----------------------------------------------------------------------------
(* Inputs *)

QuestionChars == {"a", " "}
Questions == SeqsUpTo(QuestionChars, MaxQLen)

\* request.json: a body that is not JSON (request.json raises), JSON null,
\* the empty object, a non-empty JSON list, a non-empty JSON object
BodyKinds == {"malformed", "null", "empty_object", "list", "object"}

\* data.get('question'): absent, a string, a number (0 or 5)
NoQuestion == [kind |-> "absent", str |-> <<>>, num |-> 0]
QuestionValues ==
    {NoQuestion}
    \cup {[kind |-> "str", str |-> q, num |-> 0] : q \in Questions}
    \cup {[kind |-> "num", str |-> <<>>, num |-> n] : n \in {0, 5}}

\* outputs of the external services
Texts == {<<"t1">>, <<"t2">>}
Causes == {<<"timeout">>, <<"rate limit">>}

NoLanguage == [present |-> FALSE, value |-> <<>>]
NoResp == [status |-> 0, body |-> <<>>]

EmptyReq ==
    [endpoint |-> "none", body |-> "null", question |-> NoQuestion,
     hasFile |-> FALSE, filename |-> <<>>, content |-> <<>>,
     language |-> NoLanguage]

ErrorResp_Message(status, msg) == [status |-> status, body |-> [message |-> msg]]

\* jsonify({'error': msg}), status
ErrorResp(status, msg) == [status |-> status, body |-> [error |-> msg]]

\* jsonify(result)
OkResp(result) == [status |-> 200, body |-> result]

\* the record of one strategy invocation or external call
Call(op, path, input) == [op |-> op, path |-> path, input |-> input]

\* requests that may be in flight at the same time
Requests == 1..NumRequests

\* the locals of a request in flight before it arrives
IdleRequest ==
    [pc |-> "idle", kind |-> "none", filename |-> <<>>, content |-> <<>>,
     dir |-> <<>>, path |-> <<>>, inputs |-> <<>>, text |-> <<>>]

Init ==
    /\ pc = "idle"
    /\ req = EmptyReq
    /\ resp = NoResp
    /\ calls = <<>>
    /\ fs = {}
    /\ fileRead = FALSE
    /\ text = <<>>
    /\ primaryErr = <<>>
    /\ transcript = <<>>
    /\ translated_text = <<>>
    /\ summary_en = <<>>
    /\ failures = <<>>
    /\ creq = [r \in Requests |-> IdleRequest]
    /\ cfs = {}

-----------------------------------------------------------------------------
(* /api/structure-inquiry and /api/legal-faq *)

\* `not question` for the value data.get('question') returns
QuestionFalsy(q) ==
    \/ q.kind = "absent"
    \/ q.kind = "str" /\ q.str = <<>>
    \/ q.kind = "num" /\ q.num = 0

QuestionTooShort_NoStrip(s) == Len(s) < MinQuestionLen

\* len(question.strip()) < 10
QuestionTooShort(s) == Len(Strip(s)) < MinQuestionLen

\* The validation of a question route: the response it returns without
\* calling the helper, or NoResp when the helper is to be called.
QuestionValidation(body, q) ==
    IF body = "malformed"
        THEN ErrorResp(500, <<"400 Bad Request: Failed to decode JSON object">>)
    ELSE IF body \in {"null", "empty_object"}
        THEN ErrorResp(400, <<"No data provided">>)
    ELSE IF body = "list"
        THEN ErrorResp(500, <<"'list' object has no attribute 'get'">>)
    ELSE IF QuestionFalsy(q)
        THEN ErrorResp(400, <<"No question provided">>)
    ELSE IF q.kind = "num"
        THEN ErrorResp(500, <<"'int' object has no attribute 'strip'">>)
    ELSE IF QuestionTooShort(q.str)
        THEN ErrorResp(400, <<"Question is too short. Please provide more details.">>)
    ELSE NoResp

QuestionRoute(endpoint, callpc) ==
    /\ pc = "idle"
    /\ UNCHANGED concVars
    /\ \E body \in BodyKinds :
       \E q \in (IF body = "object" THEN QuestionValues ELSE {NoQuestion}) :
          /\ req' = [EmptyReq EXCEPT !.endpoint = endpoint, !.body = body,
                                     !.question = q]
          /\ resp' = QuestionValidation(body, q)
          /\ pc' = IF resp'.status = 0 THEN callpc ELSE "done"
    /\ UNCHANGED <<calls, fs, fileRead, text, primaryErr,
                   transcript, translated_text, summary_en, failures>>

\* routes.py structure_inquiry, up to the call of structure_legal_inquiry
StructureInquiryRoute == QuestionRoute("structure-inquiry", "llm_inquiry")

\* routes.py legal_faq, up to the call of get_legal_faq_response
LegalFaqRoute == QuestionRoute("legal-faq", "llm_faq")

InquiryFields == {"structured_question", "legal_issues",
                  "suggested_categories", "missing_information"}
FaqFields == {"answer", "references"}

\* json.loads(function_call.arguments): an object with some of the fields
ParsedResults(fields) == UNION {[fs0 -> Texts] : fs0 \in SUBSET fields}

\* One language-model call of a question helper, and the rest of the helper
\* and of the route: the parsed result is returned as it is; any exception is
\* re-raised with the helper's prefix and becomes the route's 500.
QuestionLLMCall(atpc, op, fields, prefix) ==
    /\ pc = atpc
    /\ UNCHANGED concVars
    /\ calls' = Append(calls, Call(op, <<>>, req.question.str))
    /\ \/ \E result \in ParsedResults(fields) :
             /\ resp' = OkResp(result)
             /\ UNCHANGED failures
       \/ \E cause \in Causes :
             /\ resp' = ErrorResp(500, prefix \o cause)
             /\ failures' = Append(failures, cause)
    /\ pc' = "done"
    /\ UNCHANGED <<req, fs, fileRead, text, primaryErr,
                   transcript, translated_text, summary_en>>

\* text_data_util.py structure_legal_inquiry
StructureLegalInquiry ==
    QuestionLLMCall("llm_inquiry", "llm_inquiry", InquiryFields,
                    <<"Error structuring legal inquiry: ">>)

\* text_data_util.py get_legal_faq_response.  len(result['answer']) is
\* evaluated for the debug log, so a result without 'answer' raises KeyError.
GetLegalFaqResponse ==
    /\ pc = "llm_faq"
    /\ UNCHANGED concVars
    /\ calls' = Append(calls, Call("llm_faq", <<>>, req.question.str))
    /\ \/ \E result \in ParsedResults(FaqFields) :
             IF "answer" \in DOMAIN result
             THEN /\ resp' = OkResp(result)
                  /\ UNCHANGED failures
             ELSE /\ resp' = ErrorResp(500,
                        <<"Error generating legal FAQ response: ", "'answer'">>)
                  /\ failures' = Append(failures, <<"'answer'">>)
       \/ \E cause \in Causes :
             /\ resp' = ErrorResp(500,
                    <<"Error generating legal FAQ response: ">> \o cause)
             /\ failures' = Append(failures, cause)
    /\ pc' = "done"
    /\ UNCHANGED <<req, fs, fileRead, text, primaryErr,
                   transcript, translated_text, summary_en>>

-----------------------------------------------------------------------------
(* Uploads *)

\* upload names, as the client sent them (FileStorage.filename)
DocNames ==
    { <<"a", ".", "p", "d", "f">>,
      <<"A", ".", "P", "d", "F">>,
      <<"d", "/", "a", ".", "p", "d", "f">>,
      <<"b", ".", "d", "o", "c", "x">>,
      <<"B", ".", "D", "O", "C", "X">>,
      <<"c", ".", "t", "x", "t">>,
      <<"C", ".", "T", "x", "t">> }
AudioNames ==
    { <<"v", ".", "m", "p", "3">>,
      <<"V", ".", "W", "A", "V">>,
      <<"v", ".", "m", "4", "a">>,
      <<"v", ".", "O", "g", "g">> }
OtherNames ==
    { <<>>,
      <<"p", "d", "f">>,
      <<".", "p", "d", "f">>,
      <<"a", ".", "p", "d", "f", ".", "e", "x", "e">>,
      <<"a", ".", "p", "d", "f", "/">>,
      <<"a", ".", "t", "x", "t", "/", ".", "m", "p", "3">> }
Filenames == DocNames \cup AudioNames \cup OtherNames

\* upload contents: bytes, 0xFF being no valid UTF-8
Bytes == {"a", "\r", "xFF"}
Contents == SeqsUpTo(Bytes, MaxContentLen)

\* tempfile.TemporaryDirectory() and tempfile.NamedTemporaryFile(suffix='.mp3')
TempDir == <<"/tmp/tmpdir">>
TempAudioPath == <<"/tmp/tmpaudio", ".", "m", "p", "3">>

File(path, content) == [path |-> path, content |-> content, isDir |-> FALSE]
Dir(path) == [path |-> path, content |-> <<>>, isDir |-> TRUE]

\* the file or directory is the directory dir or lies under it
Under(f, dir) ==
    \/ f.path = dir
    \/ /\ Len(f.path) > Len(dir)
       /\ SubSeq(f.path, 1, Len(dir) + 1) = dir \o <<"/">>

\* the content of the file at path (the empty content when there is none)
ContentAt(files, path) ==
    IF \E f \in files : f.path = path
    THEN (CHOOSE f \in files : f.path = path).content
    ELSE <<>>

\* open(path, 'wb').write(content)
WriteFile(files, path, content) ==
    {f \in files : f.path # path} \cup {File(path, content)}

RemoveTempDir_Leak(files) == files

\* leaving `with tempfile.TemporaryDirectory()`: the directory and all in it go
RemoveTempDir(files) == {f \in files : ~Under(f, TempDir)}

DocExtensions == { <<".", "p", "d", "f">>, <<".", "d", "o", "c", "x">>,
                   <<".", "t", "x", "t">> }
AudioExtensions == { <<".", "m", "p", "3">>, <<".", "w", "a", "v">>,
                     <<".", "m", "4", "a">>, <<".", "o", "g", "g">> }

ExtAllowed_Any(filename, allowed) == TRUE

\* os.path.splitext(file.filename.lower())[1] in allowed_extensions
ExtAllowed(filename, allowed) == SplitExt(Lower(filename))[2] \in allowed

\* The validation of an upload route: the response it returns without
\* calling the helper, or NoResp when the helper is to be called.
UploadValidation(hasFile, filename, allowed, nofile, noname, unsupported) ==
    IF ~hasFile THEN ErrorResp(400, nofile)
    ELSE IF filename = <<>> THEN ErrorResp(400, noname)
    ELSE IF ~ExtAllowed(filename, allowed) THEN ErrorResp(400, unsupported)
    ELSE NoResp

ExtractStrategy_NoDocx(filename) ==
    IF EndsWith(filename, <<".", "p", "d", "f">>) THEN "pdf"
    ELSE IF EndsWith(filename, <<".", "t", "x", "t">>) THEN "txt"
    ELSE "unsupported"

\* the branch extract_text_from_file takes for the lowercased filename
ExtractStrategy(filename) ==
    IF EndsWith(filename, <<".", "p", "d", "f">>) THEN "pdf"
    ELSE IF EndsWith(filename, <<".", "d", "o", "c", "x">>) THEN "docx"
    ELSE IF EndsWith(filename, <<".", "t", "x", "t">>) THEN "txt"
    ELSE "unsupported"

RECURSIVE DecodeText(_)
\* open(path, 'r', encoding='utf-8', errors='replace').read(): undecodable
\* bytes become U+FFFD; universal newlines turn \r\n and \r into \n
DecodeText(bytes) ==
    IF bytes = <<>> THEN <<>>
    ELSE IF Head(bytes) = "xFF" THEN <<"uFFFD">> \o DecodeText(Tail(bytes))
    ELSE IF Head(bytes) = "\r"
         THEN IF Len(bytes) > 1 /\ bytes[2] = "\n"
              THEN <<"\n">> \o DecodeText(Tail(Tail(bytes)))
              ELSE <<"\n">> \o DecodeText(Tail(bytes))
    ELSE <<Head(bytes)>> \o DecodeText(Tail(bytes))

\* temp_file_path = os.path.join(temp_dir, os.path.basename(filename))
TempFilePath(filename) == PathJoin(TempDir, BaseName(filename))

\* pdf_path = os.path.join(temp_dir, splitext(basename(filename))[0] + '.pdf')
PdfPath(filename) ==
    PathJoin(TempDir, SplitExt(BaseName(filename))[1] \o <<".", "p", "d", "f">>)

ExtractionFailedResp_Both(filename, cause) ==
    ErrorResp(500, <<"Error analyzing ">> \o filename \o <<": ">>
                   \o <<"Error processing ">> \o Lower(filename) \o <<": ">>
                   \o primaryErr \o <<"; ">> \o cause)

\* raise Exception(f"Error processing {filename}: {str(e)}"), re-raised by
\* analyze_document as f"Error analyzing {file.filename}: {str(e)}", and
\* returned by the route as its 500
ExtractionFailedResp(filename, cause) ==
    ErrorResp(500, <<"Error analyzing ">> \o filename \o <<": ">>
                   \o <<"Error processing ">> \o Lower(filename) \o <<": ">>
                   \o cause)

\* routes.py analyze_document_route, analyze_document and
\* extract_text_from_file up to the first extraction strategy
AnalyzeDocumentRoute ==
    /\ pc = "idle"
    /\ UNCHANGED concVars
    /\ \E hasFile \in BOOLEAN :
       \E filename \in (IF hasFile THEN Filenames ELSE {<<>>}) :
       \E content \in (IF hasFile THEN Contents ELSE {<<>>}) :
          LET valid == UploadValidation(hasFile, filename, DocExtensions,
                  <<"No document provided">>, <<"File has no filename">>,
                  <<"Unsupported file type. Allowed types: .pdf, .docx, .txt">>)
              lname == Lower(filename)
              strategy == ExtractStrategy(lname)
              written == WriteFile({Dir(TempDir)}, TempFilePath(lname), content)
              unsupported == <<"Unsupported file type: ">> \o lname
          IN  /\ req' = [EmptyReq EXCEPT !.endpoint = "analyze-document",
                             !.hasFile = hasFile, !.filename = filename,
                             !.content = content]
              /\ IF valid.status # 0
                 THEN /\ resp' = valid
                      /\ pc' = "done"
                      /\ UNCHANGED <<fs, fileRead, text, primaryErr, failures>>
                 ELSE /\ fileRead' = TRUE
                      /\ CASE strategy = "pdf" ->
                                /\ pc' = "ocr_pdf"
                                /\ fs' = fs \cup written
                                /\ UNCHANGED <<resp, text, primaryErr, failures>>
                           [] strategy = "docx" ->
                                /\ pc' = "convert"
                                /\ fs' = fs \cup written
                                /\ UNCHANGED <<resp, text, primaryErr, failures>>
                           [] strategy = "txt" ->
                                /\ pc' = "llm_analysis"
                                /\ text' = DecodeText(
                                       ContentAt(written, TempFilePath(lname)))
                                /\ fs' = RemoveTempDir(fs \cup written)
                                /\ UNCHANGED <<resp, primaryErr, failures>>
                           [] OTHER ->
                                \* ValueError in the primary branch and again
                                \* in the fallback branch
                                /\ pc' = "done"
                                /\ primaryErr' = unsupported
                                /\ failures' = <<unsupported, unsupported>>
                                /\ fs' = RemoveTempDir(fs \cup written)
                                /\ resp' = ExtractionFailedResp(filename, unsupported)
                                /\ UNCHANGED text
    /\ UNCHANGED <<calls, transcript, translated_text, summary_en>>

-----------------------------------------------------------------------------
(* Extraction strategies of extract_text_from_file *)

\* page markdowns of an OCR response, page texts of a PDF, paragraphs of a
\* document
PageTexts == {<<"p1">>, <<"p2">>}
Pages == SeqsUpTo(PageTexts, MaxPages)

\* str(e) of the exceptions the strategies' libraries raise
OcrCauses == {<<"401 Unauthorized">>, <<"OCR timeout">>}
PypdfCauses == {<<"EOF marker not found">>}
ConvertCauses == {<<"Word is not installed">>}
DocxCauses == {<<"File is not a zip file">>}

\* "\n\n".join(markdowns)
OcrText(pages) == Join(<<"\n\n">>, pages)

RECURSIVE PypdfText(_)
\* text += page_text + "\n" for every page
PypdfText(pages) ==
    IF pages = <<>> THEN <<>>
    ELSE Head(pages) \o <<"\n">> \o PypdfText(Tail(pages))

\* "\n".join([paragraph.text for paragraph in doc.paragraphs])
DocxText(paragraphs) == Join(<<"\n">>, paragraphs)

\* raise Exception(f"Mistral OCR API error: {str(e)}")
OcrError(cause) == <<"Mistral OCR API error: ">> \o cause

\* raise Exception(f"Error extracting text with PyPDF2: {str(e)}")
PypdfError(cause) == <<"Error extracting text with PyPDF2: ">> \o cause

\* the conversion docx2pdf writes at pdf_path
ConvertedPdf(content) == <<"%PDF">> \o content

\* `return text` inside the with block: the temporary directory is removed
\* and analyze_document goes on to its language-model call
ExtractionDone(t) ==
    /\ text' = t
    /\ fs' = RemoveTempDir(fs)
    /\ pc' = "llm_analysis"
    /\ UNCHANGED resp

\* an exception leaves the with block: the temporary directory is removed,
\* the exception is wrapped twice and becomes the route's 500
ExtractionFailed(cause) ==
    /\ fs' = RemoveTempDir(fs)
    /\ resp' = ExtractionFailedResp(req.filename, cause)
    /\ pc' = "done"
    /\ UNCHANGED text

AfterPdfPrimary_Always(ok) == "pypdf"

\* where the .pdf branch goes after process_pdf_with_mistral_ocr
AfterPdfPrimary(ok) == IF ok THEN "llm_analysis" ELSE "pypdf"

\* .pdf branch, primary: text = process_pdf_with_mistral_ocr(temp_file_path)
OcrPdf ==
    /\ pc = "ocr_pdf"
    /\ UNCHANGED concVars
    /\ LET path == TempFilePath(Lower(req.filename))
       IN  /\ calls' = Append(calls, Call("ocr", path, ContentAt(fs, path)))
           /\ \/ \E pages \in Pages :
                    /\ text' = OcrText(pages)
                    /\ pc' = AfterPdfPrimary(TRUE)
                    /\ fs' = IF pc' = "llm_analysis" THEN RemoveTempDir(fs) ELSE fs
                    /\ UNCHANGED <<primaryErr, failures>>
              \/ \E cause \in OcrCauses :
                    /\ primaryErr' = OcrError(cause)
                    /\ failures' = Append(failures, OcrError(cause))
                    /\ pc' = AfterPdfPrimary(FALSE)
                    /\ UNCHANGED <<text, fs>>
    /\ UNCHANGED <<req, resp, fileRead, transcript, translated_text, summary_en>>

\* .pdf branch, fallback: text = extract_text_with_pypdf(temp_file_path)
PypdfFallback ==
    /\ pc = "pypdf"
    /\ UNCHANGED concVars
    /\ LET path == TempFilePath(Lower(req.filename))
       IN  /\ calls' = Append(calls, Call("pypdf", path, ContentAt(fs, path)))
           /\ \/ \E pages \in Pages :
                    /\ ExtractionDone(PypdfText(pages))
                    /\ UNCHANGED failures
              \/ \E cause \in PypdfCauses :
                    /\ ExtractionFailed(PypdfError(cause))
                    /\ failures' = Append(failures, PypdfError(cause))
    /\ UNCHANGED <<req, fileRead, primaryErr, transcript, translated_text,
                   summary_en>>

\* .docx branch, primary, first half: convert(temp_file_path, pdf_path)
ConvertDocx ==
    /\ pc = "convert"
    /\ UNCHANGED concVars
    /\ LET path == TempFilePath(Lower(req.filename))
           pdf_path == PdfPath(Lower(req.filename))
       IN  /\ calls' = Append(calls, Call("convert", path, ContentAt(fs, path)))
           /\ \/ /\ fs' = WriteFile(fs, pdf_path, ConvertedPdf(ContentAt(fs, path)))
                 /\ pc' = "ocr_docx"
                 /\ UNCHANGED failures
              \/ \E cause \in ConvertCauses :
                    /\ failures' = Append(failures, cause)
                    /\ pc' = "docx_inner"
                    /\ UNCHANGED fs
    /\ UNCHANGED <<req, resp, fileRead, text, primaryErr, transcript,
                   translated_text, summary_en>>

\* .docx branch, primary, second half: text = process_pdf_with_mistral_ocr(pdf_path)
OcrDocx ==
    /\ pc = "ocr_docx"
    /\ UNCHANGED concVars
    /\ LET pdf_path == PdfPath(Lower(req.filename))
       IN  /\ calls' = Append(calls, Call("ocr", pdf_path, ContentAt(fs, pdf_path)))
           /\ \/ \E pages \in Pages :
                    /\ ExtractionDone(OcrText(pages))
                    /\ UNCHANGED failures
              \/ \E cause \in OcrCauses :
                    /\ failures' = Append(failures, OcrError(cause))
                    /\ pc' = "docx_inner"
                    /\ UNCHANGED <<text, fs, resp>>
    /\ UNCHANGED <<req, fileRead, primaryErr, transcript, translated_text,
                   summary_en>>

\* .docx branch, `except Exception as docx_error` (lines 53-57):
\* doc = Document(temp_file_path); text = "\n".join(...)
DocxInnerFallback ==
    /\ pc = "docx_inner"
    /\ UNCHANGED concVars
    /\ LET path == TempFilePath(Lower(req.filename))
       IN  /\ calls' = Append(calls, Call("docx", path, ContentAt(fs, path)))
           /\ \/ \E paragraphs \in Pages :
                    /\ ExtractionDone(DocxText(paragraphs))
                    /\ UNCHANGED <<primaryErr, failures>>
              \/ \E cause \in DocxCauses :
                    /\ primaryErr' = cause
                    /\ failures' = Append(failures, cause)
                    /\ pc' = "docx_outer"
                    /\ UNCHANGED <<text, fs, resp>>
    /\ UNCHANGED <<req, fileRead, transcript, translated_text, summary_en>>

\* .docx branch of `except Exception as extraction_error` (lines 73-76):
\* doc = Document(temp_file_path) once more
DocxOuterFallback ==
    /\ pc = "docx_outer"
    /\ UNCHANGED concVars
    /\ LET path == TempFilePath(Lower(req.filename))
       IN  /\ calls' = Append(calls, Call("docx", path, ContentAt(fs, path)))
           /\ \/ \E paragraphs \in Pages :
                    /\ ExtractionDone(DocxText(paragraphs))
                    /\ UNCHANGED failures
              \/ \E cause \in DocxCauses :
                    /\ ExtractionFailed(cause)
                    /\ failures' = Append(failures, cause)
    /\ UNCHANGED <<req, fileRead, primaryErr, transcript, translated_text,
                   summary_en>>

AnalysisFields == {"summary", "key_facts"}

AnalysisInput_Placeholder(content) ==
    IF content = <<>> THEN <<"(empty document)">> ELSE content

\* line 157: {"role": "user", "content": content}, the extracted text as it is
AnalysisInput(content) == content

ResponseFilename_Lower(file_filename) == Lower(file_filename)

\* line 172: "filename": file.filename
ResponseFilename(file_filename) == file_filename

\* analyze_document after extraction: the language-model call over the
\* extracted text, the parsing of its result and the route's response.
\* analysis_result['summary'] and ['key_facts'] raise KeyError when absent.
AnalyzeDocumentLLM ==
    /\ pc = "llm_analysis"
    /\ UNCHANGED concVars
    /\ calls' = Append(calls, Call("llm_analysis", <<>>, AnalysisInput(text)))
    /\ LET prefix == <<"Error analyzing ">> \o req.filename \o <<": ">>
       IN  \/ \E result \in ParsedResults(AnalysisFields) :
                IF AnalysisFields \subseteq DOMAIN result
                THEN /\ resp' = OkResp([filename |-> ResponseFilename(req.filename),
                                        summary |-> result["summary"],
                                        key_facts |-> result["key_facts"]])
                     /\ UNCHANGED failures
                ELSE LET missing == IF "summary" \notin DOMAIN result
                                    THEN <<"'summary'">> ELSE <<"'key_facts'">>
                     IN  /\ resp' = ErrorResp(500, prefix \o missing)
                         /\ failures' = Append(failures, missing)
           \/ \E cause \in Causes :
                /\ resp' = ErrorResp(500, prefix \o cause)
                /\ failures' = Append(failures, cause)
    /\ pc' = "done"
    /\ UNCHANGED <<req, fs, fileRead, text, primaryErr, transcript,
                   translated_text, summary_en>>

-----------------------------------------------------------------------------
(* /api/process-voice *)

\* values of the form field `language`
LanguageValues == { <<"e", "n">>, <<"E", "N">>, <<"E", "n">>,
                    <<"e", "s">>, <<"F", "R">> }
Languages ==
    {NoLanguage} \cup {[present |-> TRUE, value |-> l] : l \in LanguageValues}

\* request.form.get('language', 'en')
TargetLanguage(language) ==
    IF language.present THEN language.value ELSE <<"e", "n">>

NeedsTranslation_Always(target_language) == TRUE

\* line 58: if target_language.lower() != 'en'
NeedsTranslation(target_language) == Lower(target_language) # <<"e", "n">>

NeedsSummaryTranslation_Never(target_language) == FALSE

NeedsSummaryTranslation_Exact(target_language) == target_language # <<"e", "n">>

\* line 106: if target_language.lower() != 'en'
NeedsSummaryTranslation(target_language) ==
    Lower(target_language) # <<"e", "n">>

SummarizeInput_Translated(original, translated) == translated

\* line 98: the user message of the summarization call
SummarizeInput(original, translated) == original

ResponseLanguage_Lower(target_language) == Lower(target_language)

\* line 132: "language": target_language
ResponseLanguage(target_language) == target_language

VoiceFailed_Retry(cause) ==
    /\ failures' = Append(failures, cause)
    /\ pc' = pc
    /\ UNCHANGED <<resp, fs>>

\* raise Exception(f"Error processing audio: {str(e)}") and the route's 500;
\* the temporary audio file is left where it is
VoiceFailed(cause) ==
    /\ resp' = ErrorResp(500, <<"Error processing audio: ">> \o cause)
    /\ failures' = Append(failures, cause)
    /\ pc' = "done"
    /\ UNCHANGED fs

\* lines 120-133: os.unlink(temp_file_path), whose failure is only logged,
\* then the result, returned by the route with status 200
VoiceDone(summary) ==
    /\ \/ fs' = {f \in fs : f.path # TempAudioPath}
       \/ fs' = fs
    /\ resp' = OkResp([original_transcription |-> transcript',
                       translated_text |-> translated_text',
                       summary |-> summary,
                       language |-> ResponseLanguage(TargetLanguage(req.language))])
    /\ pc' = "done"

\* routes.py process_voice and process_voice_message up to the transcription
ProcessVoiceRoute ==
    /\ pc = "idle"
    /\ UNCHANGED concVars
    /\ \E hasFile \in BOOLEAN :
       \E filename \in (IF hasFile THEN Filenames ELSE {<<>>}) :
       \E content \in (IF hasFile THEN Contents ELSE {<<>>}) :
       \E language \in Languages :
          LET valid == UploadValidation(hasFile, filename, AudioExtensions,
                  <<"No audio file provided">>, <<"No selected file">>,
                  <<"Unsupported audio file type. Allowed types: .mp3, .wav, .m4a, .ogg">>)
          IN  /\ req' = [EmptyReq EXCEPT !.endpoint = "process-voice",
                             !.hasFile = hasFile, !.filename = filename,
                             !.content = content, !.language = language]
              /\ IF valid.status # 0
                 THEN /\ resp' = valid
                      /\ pc' = "done"
                      /\ UNCHANGED <<fs, fileRead>>
                 ELSE /\ fileRead' = TRUE
                      /\ fs' = WriteFile(fs, TempAudioPath, content)
                      /\ pc' = "transcribe"
                      /\ UNCHANGED resp
    /\ UNCHANGED <<calls, text, primaryErr, transcript, translated_text,
                   summary_en, failures>>

\* lines 36-43 and the branch of lines 57-71 without a call
Transcribe ==
    /\ pc = "transcribe"
    /\ UNCHANGED concVars
    /\ calls' = Append(calls, Call("transcribe", <<>>, req.content))
    /\ \/ \E t \in Texts :
             /\ transcript' = t
             /\ IF NeedsTranslation(TargetLanguage(req.language))
                THEN /\ pc' = "translate"
                     /\ UNCHANGED translated_text
                ELSE /\ pc' = "summarize"
                     /\ translated_text' = t
             /\ UNCHANGED <<resp, failures, fs>>
       \/ \E cause \in Causes :
             /\ VoiceFailed(cause)
             /\ UNCHANGED <<transcript, translated_text>>
    /\ UNCHANGED <<req, fileRead, text, primaryErr, summary_en>>

\* lines 58-68: the translation of the transcript
TranslateTranscript ==
    /\ pc = "translate"
    /\ UNCHANGED concVars
    /\ calls' = Append(calls, Call("translate_transcript", <<>>, transcript))
    /\ \/ \E t \in Texts :
             /\ translated_text' = t
             /\ pc' = "summarize"
             /\ UNCHANGED <<resp, failures, fs>>
       \/ \E cause \in Causes :
             /\ VoiceFailed(cause)
             /\ UNCHANGED translated_text
    /\ UNCHANGED <<req, fileRead, text, primaryErr, transcript, summary_en>>

\* lines 92-103, and lines 117-133 when the summary is not translated
Summarize ==
    /\ pc = "summarize"
    /\ UNCHANGED concVars
    /\ calls' = Append(calls, Call("summarize", <<>>,
                                   SummarizeInput(transcript, translated_text)))
    /\ \/ \E t \in Texts :
             /\ summary_en' = t
             /\ UNCHANGED <<transcript, translated_text, failures>>
             /\ IF NeedsSummaryTranslation(TargetLanguage(req.language))
                THEN /\ pc' = "translate_summary"
                     /\ UNCHANGED <<resp, fs>>
                ELSE VoiceDone(t)
       \/ \E cause \in Causes :
             /\ VoiceFailed(cause)
             /\ UNCHANGED <<transcript, translated_text, summary_en>>
    /\ UNCHANGED <<req, fileRead, text, primaryErr>>

\* lines 106-116 and 120-133: the translation of the summary, the result
TranslateSummary ==
    /\ pc = "translate_summary"
    /\ UNCHANGED concVars
    /\ calls' = Append(calls, Call("translate_summary", <<>>, summary_en))
    /\ \/ \E t \in Texts :
             /\ UNCHANGED <<transcript, translated_text, failures>>
             /\ VoiceDone(t)
       \/ \E cause \in Causes :
             /\ VoiceFailed(cause)
             /\ UNCHANGED <<transcript, translated_text>>
    /\ UNCHANGED <<req, fileRead, text, primaryErr, summary_en>>

-----------------------------------------------------------------------------

Next ==
    \/ StructureInquiryRoute
    \/ StructureLegalInquiry
    \/ LegalFaqRoute
    \/ GetLegalFaqResponse
    \/ AnalyzeDocumentRoute
    \/ OcrPdf
    \/ PypdfFallback
    \/ ConvertDocx
    \/ OcrDocx
    \/ DocxInnerFallback
    \/ DocxOuterFallback
    \/ AnalyzeDocumentLLM
    \/ ProcessVoiceRoute
    \/ Transcribe
    \/ TranslateTranscript
    \/ Summarize
    \/ TranslateSummary

Spec == Init /\ [][Next]_vars

-----------------------------------------------------------------------------
(* Properties *)

\* number of logged calls of the kind op
Count(op) == Cardinality({i \in 1..Len(calls) : calls[i].op = op})

\* the last element of a non-empty sequence
Last(s) == s[Len(s)]

\* length of s without its leading and trailing whitespace, stated over the
\* positions of its first and last non-blank character
TrimmedLen(s) ==
    LET solid == {i \in 1..Len(s) : s[i] \notin {" ", "\t", "\n"}}
    IN  IF solid = {} THEN 0
        ELSE (CHOOSE j \in solid : \A k \in solid : k <= j)
             - (CHOOSE i \in solid : \A k \in solid : i <= k) + 1

Responded == resp.status # 0

IsQuestionReq == req.endpoint \in {"structure-inquiry", "legal-faq"}
IsDocReq == req.endpoint = "analyze-document"
IsVoiceReq == req.endpoint = "process-voice"

HasStringQuestion ==
    IsQuestionReq /\ req.body = "object" /\ req.question.kind = "str"

ExternalOps == {"ocr", "transcribe", "translate_transcript", "summarize",
                "translate_summary", "llm_analysis", "llm_inquiry", "llm_faq"}

NoExternalCall == \A i \in 1..Len(calls) : calls[i].op \notin ExternalOps

\* C1: every structure-inquiry or legal-faq request whose question has fewer
\* than 10 characters after trimming (empty and blank questions included) is
\* answered 400 and no call to the language model is made for it.
C1_ShortQuestionRejected ==
    (HasStringQuestion /\ TrimmedLen(req.question.str) < 10)
        => /\ pc = "done"
           /\ resp.status = 400
           /\ calls = <<>>

\* a question of 10 or more characters, fewer than 10 of them once trimmed,
\* was rejected
C1_Witness ==
    /\ HasStringQuestion
    /\ Len(req.question.str) >= 10
    /\ TrimmedLen(req.question.str) < 10
    /\ TrimmedLen(req.question.str) > 0
    /\ resp.status = 400

\* the extension of the lowercased upload name is outside the set
BadExtension(allowed) == SplitExt(Lower(req.filename))[2] \notin allowed

\* C2: an upload to analyze-document or process-voice whose lowercased
\* extension is outside the endpoint's allowed set is answered 400; its
\* content is never read, no temporary file is created and no call is made.
C2_UnsupportedUploadRejected ==
    (/\ req.hasFile
     /\ \/ IsDocReq /\ BadExtension(DocExtensions)
        \/ IsVoiceReq /\ BadExtension(AudioExtensions))
        => /\ pc = "done"
           /\ resp.status = 400
           /\ ~fileRead
           /\ fs = {}
           /\ calls = <<>>

\* a named upload with an extension of the other endpoint was rejected
C2_Witness ==
    /\ IsDocReq
    /\ req.hasFile
    /\ req.filename \in AudioNames
    /\ resp.status = 400
    /\ ~fileRead

IsPdfReq ==
    IsDocReq /\ fileRead /\ ExtractStrategy(Lower(req.filename)) = "pdf"
IsDocxReq ==
    IsDocReq /\ fileRead /\ ExtractStrategy(Lower(req.filename)) = "docx"

\* extraction is over: the language-model call is next, or the response is out
ExtractionOver == pc \in {"llm_analysis", "done"}

\* the OCR call of the request raised
OcrFailed == \E i \in 1..Len(failures) : failures[i][1] = "Mistral OCR API error: "

\* C3: for a .pdf upload the local PDF parser is invoked exactly once if the
\* OCR strategy failed and not at all if it succeeded, and it is given the
\* temporary file, with the content, that the OCR strategy was given.
C3_PdfFallbackOnce ==
    IsPdfReq =>
        /\ Count("pypdf") <= 1
        /\ ~OcrFailed => Count("pypdf") = 0
        /\ (OcrFailed /\ ExtractionOver) => Count("pypdf") = 1
        /\ ExtractionOver => Count("ocr") = 1
        /\ \A i, j \in 1..Len(calls) :
              (calls[i].op = "ocr" /\ calls[j].op = "pypdf")
                  => /\ i < j
                     /\ calls[j].path = calls[i].path
                     /\ calls[j].input = calls[i].input
                     /\ calls[j].input = req.content

\* OCR failed for a .pdf upload and the parser ran once, extracting the text
C3_Witness ==
    /\ IsPdfReq
    /\ OcrFailed
    /\ Count("pypdf") = 1
    /\ pc = "llm_analysis"
    /\ req.content # <<>>

\* the primary and the fallback strategy of the upload both failed
BothStrategiesFailed ==
    /\ IsDocReq
    /\ pc = "done"
    /\ Len(failures) >= 2
    /\ Count("llm_analysis") = 0

\* the cause at the root of an error message: its last token
RootCause(msg) == <<Last(msg)>>

C5_DocxFallbackOnce ==
    IsDocxReq =>
        /\ Count("docx") <= 1
        /\ (ExtractionOver /\ failures # <<>> /\ Count("llm_analysis") = 0)
              => Count("docx") = 1

\* C6: once analyze-document has extracted the text or failed to, and when
\* its response is produced, none of the request's temporary files or
\* directories exists.
C6_TempDirRemoved ==
    (IsDocReq /\ (ExtractionOver \/ Responded)) => fs = {}

\* the language-model call failed after an extraction that used a temporary
\* file, and the response is out
C6_Witness ==
    /\ IsDocReq
    /\ Responded
    /\ resp.status = 500
    /\ Count("ocr") = 1
    /\ Count("llm_analysis") = 1

\* C7: once the response of a voice request is produced, 200 or 500, its
\* temporary audio file does not exist.
C7_TempAudioRemoved ==
    (IsVoiceReq /\ Responded) => \A f \in fs : f.path # TempAudioPath

IsTranslationOp(op) == op \in {"translate_transcript", "translate_summary"}

\* C8: a successful voice request with language "en" (or none) returns the
\* transcript as translated_text, makes no translation call and returns the
\* output of the summarization call as summary.
C8_EnglishNoTranslation ==
    (IsVoiceReq /\ resp.status = 200
                /\ TargetLanguage(req.language) = <<"e", "n">>)
        => /\ resp.body.translated_text = resp.body.original_transcription
           /\ resp.body.original_transcription = transcript
           /\ \A i \in 1..Len(calls) : ~IsTranslationOp(calls[i].op)
           /\ Count("summarize") = 1
           /\ resp.body.summary = summary_en

\* a request without the language field succeeded
C8_Witness ==
    /\ IsVoiceReq
    /\ resp.status = 200
    /\ ~req.language.present
    /\ Len(calls) = 2

\* C9 as stated: a successful voice request whose language is not exactly
\* "en" makes one call translating the transcript and one translating the
\* summary.
C9_TwoTranslationsUnlessExactEn ==
    (IsVoiceReq /\ resp.status = 200
                /\ TargetLanguage(req.language) # <<"e", "n">>)
        => /\ Count("translate_transcript") = 1
           /\ Count("translate_summary") = 1

\* C9 as amended: a successful voice request whose language, lowercased, is
\* not "en" makes exactly two translation calls, one of the transcript and
\* one of the summary, next to the transcription and the summarization.
C9_TwoTranslationsUnlessLowerEn ==
    (IsVoiceReq /\ resp.status = 200
                /\ Lower(TargetLanguage(req.language)) # <<"e", "n">>)
        => /\ Count("translate_transcript") = 1
           /\ Count("translate_summary") = 1
           /\ Count("transcribe") = 1
           /\ Count("summarize") = 1
           /\ Len(calls) = 4

\* a request in upper-case French succeeded
C9_Witness ==
    /\ IsVoiceReq
    /\ resp.status = 200
    /\ req.language.present
    /\ req.language.value = <<"F", "R">>
    /\ Count("translate_summary") = 1

\* the calls of a voice request, in the order of the source
VoiceCallOrder(translating) ==
    IF translating
    THEN <<"transcribe", "translate_transcript", "summarize", "translate_summary">>
    ELSE <<"transcribe", "summarize">>

\* C10: the calls of a voice request are issued in the order transcribe,
\* translate transcript (if translating), summarize, translate summary (if
\* translating); the summarization call is given the transcript, never the
\* translation, and the summary translation is given the summarization's
\* output.
C10_VoiceCallOrder ==
    IsVoiceReq =>
        LET order == VoiceCallOrder(
                Lower(TargetLanguage(req.language)) # <<"e", "n">>)
        IN  /\ Len(calls) <= Len(order)
            /\ \A i \in 1..Len(calls) : calls[i].op = order[i]
            /\ resp.status = 200 => Len(calls) = Len(order)
            /\ \A i \in 1..Len(calls) :
                  /\ calls[i].op = "translate_transcript"
                        => calls[i].input = transcript
                  /\ calls[i].op = "summarize"
                        => calls[i].input = transcript
                  /\ calls[i].op = "translate_summary"
                        => calls[i].input = summary_en

\* a translated request succeeded whose translation differs from the
\* transcript and whose translated summary differs from the summary
C10_Witness ==
    /\ IsVoiceReq
    /\ resp.status = 200
    /\ Len(calls) = 4
    /\ translated_text # transcript
    /\ resp.body.summary # summary_en


EnrichmentOps == {"transcribe", "translate_transcript", "summarize",
                  "translate_summary", "llm_analysis", "llm_inquiry", "llm_faq"}

\* the step issued an enrichment call and the call (or the parsing of its
\* result) raised
EnrichmentFailedStep ==
    /\ Len(calls') = Len(calls) + 1
    /\ calls'[Len(calls')].op \in EnrichmentOps
    /\ Len(failures') = Len(failures) + 1

\* C11: when a transcription or language-model call fails, the request ends
\* in that step with a 500 whose body is the error alone (no partial
\* result), and after the response no call, retry or change follows.
C11_EnrichmentFailureAborts ==
    [][ /\ EnrichmentFailedStep
            => /\ pc' = "done"
               /\ resp'.status = 500
               /\ DOMAIN resp'.body = {"error"}
        /\ pc = "done" => (calls' = calls /\ resp' = resp /\ pc' = pc) ]_vars

\* a translated voice request failed at its summarization, the third call
C11_Witness ==
    /\ IsVoiceReq
    /\ resp.status = 500
    /\ Len(calls) = 3
    /\ Last(calls).op = "summarize"
    /\ translated_text \in Texts
    /\ DOMAIN resp.body = {"error"}

\* the fields the endpoint's schema marks as required
RequiredFields(endpoint) ==
    CASE endpoint = "analyze-document" -> {"summary", "key_facts"}
      [] endpoint = "structure-inquiry" ->
            {"structured_question", "legal_issues", "suggested_categories",
             "missing_information"}
      [] endpoint = "legal-faq" -> {"answer"}
      [] OTHER -> {}

\* C12: no 200 body of analyze-document, structure-inquiry or legal-faq
\* lacks a field its schema marks as required.
C12_RequiredFieldsPresent ==
    (req.endpoint \in {"analyze-document", "structure-inquiry", "legal-faq"}
        /\ resp.status = 200)
        => RequiredFields(req.endpoint) \subseteq DOMAIN resp.body

\* the body is absent, empty or no JSON object, or the question is absent,
\* no string, or short
InvalidQuestionInput ==
    \/ req.body # "object"
    \/ req.question.kind # "str"
    \/ TrimmedLen(req.question.str) < 10

\* C13: every structure-inquiry or legal-faq request with a missing, short
\* or malformed question is answered 400, never 500, without external call.
C13_InvalidQuestionIs400 ==
    (IsQuestionReq /\ InvalidQuestionInput)
        => /\ resp.status = 400
           /\ NoExternalCall

\* C14: a request ends in exactly one response, of status 200, 400 or 500;
\* the body of a 400 or 500 is an object with the field `error`; a request
\* under way can always take its next step, so nothing leaves a handler but
\* its response.
C14_OneJsonResponse ==
    /\ [](/\ Responded <=> pc = "done"
          /\ Responded => resp.status \in {200, 400, 500}
          /\ resp.status \in {400, 500} => DOMAIN resp.body = {"error"}
          /\ pc # "done" => ENABLED Next)
    /\ [][Responded => resp' = resp]_vars

\* a validation that raised (a JSON list where an object is expected) was
\* answered by the handler's 500
C14_Witness ==
    /\ IsQuestionReq
    /\ req.body = "list"
    /\ resp.status = 500
    /\ DOMAIN resp.body = {"error"}
    /\ calls = <<>>

\* the last extraction strategy of the upload raised: the PDF parser, or the
\* paragraph extraction in the outer handler
ExtractionFinallyFailed ==
    \/ \E i \in 1..Len(failures) :
          failures[i][1] = "Error extracting text with PyPDF2: "
    \/ Cardinality({i \in 1..Len(failures) : failures[i] \in DocxCauses}) >= 2

\* C15: document analysis makes exactly one language-model call if the
\* extraction succeeded and none if it failed; the extracted text, empty or
\* not, is the input of that call, unchanged.
C15_OneAnalysisCall ==
    (IsDocReq /\ fileRead) =>
        /\ Count("llm_analysis") <= 1
        /\ ExtractionFinallyFailed => Count("llm_analysis") = 0
        /\ (pc = "done" /\ ~ExtractionFinallyFailed) => Count("llm_analysis") = 1
        /\ \A i \in 1..Len(calls) :
              calls[i].op = "llm_analysis" => calls[i].input = text
        /\ (pc = "done" /\ SplitExt(Lower(req.filename))[2] = <<".", "t", "x", "t">>)
              => (req.content = <<>> <=> Last(calls).input = <<>>)

\* an empty .txt upload was analysed: the call was made over the empty text
C15_Witness ==
    /\ IsDocReq
    /\ fileRead
    /\ req.content = <<>>
    /\ resp.status = 200
    /\ Count("llm_analysis") = 1
    /\ Last(calls).input = <<>>


\* the value of the form field `language`, "en" when the field is absent
RequestedLanguage ==
    IF req.language.present THEN req.language.value ELSE <<"e", "n">>

\* C17: a successful voice request returns as `language` the requested
\* value, unchanged in case and content, and as `original_transcription` the
\* transcript of the transcription call, translated or not.
C17_LanguageAndTranscriptVerbatim ==
    (IsVoiceReq /\ resp.status = 200)
        => /\ resp.body.language = RequestedLanguage
           /\ resp.body.original_transcription = transcript
           /\ transcript \in Texts
           /\ \A i \in 1..Len(calls) :
                 calls[i].op = "translate_transcript"
                     => calls[i].input = resp.body.original_transcription

\* a translated request in upper-case letters succeeded
C17_Witness ==
    /\ IsVoiceReq
    /\ resp.status = 200
    /\ req.language.present
    /\ req.language.value = <<"F", "R">>
    /\ Count("translate_transcript") = 1
    /\ resp.body.translated_text # resp.body.original_transcription

ExtractionOps == {"ocr", "pypdf", "convert", "docx"}

\* C18: a successful document analysis returns as `filename` the upload's
\* name as submitted, case preserved, while the temporary file the
\* strategies are given carries the lowercased name.
C18_FilenameVerbatim ==
    (IsDocReq /\ resp.status = 200)
        => /\ resp.body.filename = req.filename
           /\ \A i \in 1..Len(calls) :
                 calls[i].op \in ExtractionOps
                     => /\ calls[i].path = Lower(calls[i].path)
                        /\ Lower(calls[i].path) # <<>>

\* an upload with upper-case letters in its name was analysed through OCR
C18_Witness ==
    /\ IsDocReq
    /\ resp.status = 200
    /\ req.filename # Lower(req.filename)
    /\ Count("ocr") = 1

\* the extension the route tests
RouteExtension == SplitExt(Lower(req.filename))[2]

\* C19: every upload analyze-document accepts is dispatched by the extractor
\* to the strategy of its extension (.pdf: OCR first; .docx: conversion
\* first; .txt: decoding, no strategy call), and the extractor's
\* 'Unsupported file type' branch is never taken for it.
C19_RouteAndDispatchAgree ==
    (IsDocReq /\ fileRead) =>
        /\ RouteExtension \in DocExtensions
        /\ ~Contains(primaryErr, <<"Unsupported file type: ">>)
        /\ resp.status = 500
              => ~Contains(resp.body.error, <<"Unsupported file type: ">>)
        /\ RouteExtension = <<".", "p", "d", "f">>
              => /\ pc # "ocr_pdf" => (calls # <<>> /\ calls[1].op = "ocr")
                 /\ Count("convert") = 0 /\ Count("docx") = 0
        /\ RouteExtension = <<".", "d", "o", "c", "x">>
              => /\ pc # "convert" => (calls # <<>> /\ calls[1].op = "convert")
                 /\ Count("pypdf") = 0
        /\ RouteExtension = <<".", "t", "x", "t">>
              => /\ \A i \in 1..Len(calls) : calls[i].op = "llm_analysis"
                 /\ pc \in {"llm_analysis", "done"}

\* an accepted .docx upload with upper-case letters went to the conversion
C19_Witness ==
    /\ IsDocReq
    /\ fileRead
    /\ req.filename # Lower(req.filename)
    /\ RouteExtension = <<".", "d", "o", "c", "x">>
    /\ calls # <<>>
    /\ calls[1].op = "convert"

\* C20: both translation decisions of a voice request are taken on the
\* lowercased language and agree: the summary is translated only if the
\* transcript was, a request that completes made both translation calls or
\* neither, and neither exactly when the lowercased language is "en".
C20_TranslationDecisionsAgree ==
    IsVoiceReq =>
        LET en == Lower(RequestedLanguage) = <<"e", "n">>
        IN  /\ en => (Count("translate_transcript") = 0
                      /\ Count("translate_summary") = 0)
            /\ (~en /\ Count("summarize") >= 1)
                  => Count("translate_transcript") = 1
            /\ (pc = "translate_summary" \/ Count("translate_summary") >= 1)
                  => Count("translate_transcript") = 1
            /\ pc = "translate" => ~en
            /\ resp.status = 200
                  => /\ Count("translate_transcript") = Count("translate_summary")
                     /\ Count("translate_transcript") = 0 <=> en

\* a request with language "En" succeeded with two calls
C20_Witness ==
    /\ IsVoiceReq
    /\ resp.status = 200
    /\ req.language.present
    /\ req.language.value = <<"E", "n">>
    /\ Len(calls) = 2


-----------------------------------------------------------------------------
(* Requests in flight at the same time.  Each request runs the steps of     *)
(* extract_text_from_file (lines 27-40, the strategy's read of the          *)
(* temporary file, the end of the with block) or of process_voice_message   *)
(* (lines 26-43, 120-125) that touch the one thing requests share, the      *)
(* directory of temporary files.  The results of the external services are  *)
(* as in the steps above and are left out here.                             *)

\* uploads of the requests in flight: two names equal once lowercased
ConcDocNames == { <<"a", ".", "p", "d", "f">>, <<"A", ".", "P", "d", "F">>,
                  <<"c", ".", "t", "x", "t">> }
ConcAudioNames == { <<"v", ".", "m", "p", "3">> }
ConcContents == { <<"a">>, <<"xFF">> }

\* the names tempfile draws from
TempNames == {"/tmp/tmp1", "/tmp/tmp2", "/tmp/tmp3"}

NewTempDirs_Fixed(files) == {TempDir}

\* tempfile.TemporaryDirectory(): mkdtemp makes a directory under a name
\* that does not exist yet
NewTempDirs(files) == {<<n>> : n \in TempNames} \ {f.path : f \in files}

\* tempfile.NamedTemporaryFile(suffix='.mp3', delete=False): a file under a
\* name that does not exist yet
NewTempAudioPaths(files) ==
    {<<n, ".", "m", "p", "3">> : n \in TempNames} \ {f.path : f \in files}

\* what a strategy or service was given: the bytes, and whether the file
\* they were read from existed
Given(found, content) == [found |-> found, content |-> content]

\* open(path, 'rb').read() by a strategy
ReadTempFile(files, path) ==
    Given(\E f \in files : f.path = path /\ ~f.isDir, ContentAt(files, path))

\* the function has returned or raised: its locals are gone
Returned(q) == [IdleRequest EXCEPT !.pc = "done", !.kind = q.kind]

\* analyze_document_route accepts the upload; lines 27-28 of
\* extract_text_from_file: filename = file.filename.lower(), file.read()
CReceiveDocument(r) ==
    /\ creq[r].pc = "idle"
    /\ \E filename \in ConcDocNames, content \in ConcContents :
          /\ ExtAllowed(filename, DocExtensions)
          /\ creq' = [creq EXCEPT ![r] =
                 [@ EXCEPT !.pc = "mkdtemp", !.kind = "doc",
                           !.filename = filename, !.content = content]]
    /\ UNCHANGED <<cfs, seqVars>>

\* line 33: with tempfile.TemporaryDirectory() as temp_dir
CMakeTempDir(r) ==
    /\ creq[r].pc = "mkdtemp"
    /\ \E dir \in NewTempDirs(cfs) :
          /\ cfs' = cfs \cup {Dir(dir)}
          /\ creq' = [creq EXCEPT ![r] =
                 [@ EXCEPT !.pc = "write", !.dir = dir,
                           !.path = PathJoin(dir, BaseName(Lower(creq[r].filename)))]]
    /\ UNCHANGED seqVars

\* lines 34-38: the content is written at temp_file_path
CWriteTempFile(r) ==
    /\ creq[r].pc = "write"
    /\ cfs' = WriteFile(cfs, creq[r].path, creq[r].content)
    /\ creq' = [creq EXCEPT ![r].pc = "extract"]
    /\ UNCHANGED seqVars

\* lines 43-45 and 58-61: the primary strategy reads the temporary file;
\* .txt is decoded, .pdf goes to OCR, which may raise
CExtract(r) ==
    /\ creq[r].pc = "extract"
    /\ LET given == ReadTempFile(cfs, creq[r].path)
           strategy == ExtractStrategy(Lower(creq[r].filename))
       IN  \/ /\ strategy = "txt"
              /\ creq' = [creq EXCEPT ![r] =
                     [@ EXCEPT !.pc = "cleanup",
                               !.inputs = Append(@, given),
                               !.text = DecodeText(given.content)]]
           \/ /\ strategy = "pdf"
              /\ \E next \in {AfterPdfPrimary(TRUE), AfterPdfPrimary(FALSE)} :
                    creq' = [creq EXCEPT ![r] =
                        [@ EXCEPT !.pc = IF next = "pypdf" THEN "fallback"
                                         ELSE "cleanup",
                                  !.inputs = Append(@, given)]]
    /\ UNCHANGED <<cfs, seqVars>>

\* lines 70-72: the PDF parser reads the temporary file
CFallbackExtract(r) ==
    /\ creq[r].pc = "fallback"
    /\ creq' = [creq EXCEPT ![r] =
           [@ EXCEPT !.pc = "cleanup",
                     !.inputs = Append(@, ReadTempFile(cfs, creq[r].path))]]
    /\ UNCHANGED <<cfs, seqVars>>

\* the with block of line 33 is left: the request's directory is removed
CRemoveTempDir(r) ==
    /\ creq[r].pc = "cleanup"
    /\ cfs' = {f \in cfs : ~Under(f, creq[r].dir)}
    /\ creq' = [creq EXCEPT ![r] = Returned(@)]
    /\ UNCHANGED seqVars

\* process_voice accepts the upload; line 28: audio_bytes = audio_file.read()
CReceiveVoice(r) ==
    /\ creq[r].pc = "idle"
    /\ \E filename \in ConcAudioNames, content \in ConcContents :
          /\ ExtAllowed(filename, AudioExtensions)
          /\ creq' = [creq EXCEPT ![r] =
                 [@ EXCEPT !.pc = "mktemp", !.kind = "voice",
                           !.filename = filename, !.content = content]]
    /\ UNCHANGED <<cfs, seqVars>>

\* lines 31-34: the bytes are written to a new named temporary file
CMakeTempAudio(r) ==
    /\ creq[r].pc = "mktemp"
    /\ \E path \in NewTempAudioPaths(cfs) :
          /\ cfs' = WriteFile(cfs, path, creq[r].content)
          /\ creq' = [creq EXCEPT ![r] =
                 [@ EXCEPT !.pc = "transcribe", !.path = path]]
    /\ UNCHANGED seqVars

\* lines 38-42: the transcription is given audio_bytes; when it raises the
\* request ends and the file stays
CTranscribe(r) ==
    /\ creq[r].pc = "transcribe"
    /\ \/ creq' = [creq EXCEPT ![r] =
              [@ EXCEPT !.pc = "unlink",
                        !.inputs = Append(@, Given(TRUE, creq[r].content))]]
       \/ creq' = [creq EXCEPT ![r] = Returned(@)]
    /\ UNCHANGED <<cfs, seqVars>>

\* lines 120-125: os.unlink(temp_file_path), whose failure is only logged
CUnlinkAudio(r) ==
    /\ creq[r].pc = "unlink"
    /\ \/ cfs' = {f \in cfs : f.path # creq[r].path}
       \/ cfs' = cfs
    /\ creq' = [creq EXCEPT ![r] = Returned(@)]
    /\ UNCHANGED seqVars

NextConc ==
    \/ \E r \in Requests : CReceiveDocument(r)
    \/ \E r \in Requests : CMakeTempDir(r)
    \/ \E r \in Requests : CWriteTempFile(r)
    \/ \E r \in Requests : CExtract(r)
    \/ \E r \in Requests : CFallbackExtract(r)
    \/ \E r \in Requests : CRemoveTempDir(r)
    \/ \E r \in Requests : CReceiveVoice(r)
    \/ \E r \in Requests : CMakeTempAudio(r)
    \/ \E r \in Requests : CTranscribe(r)
    \/ \E r \in Requests : CUnlinkAudio(r)

SpecConc == Init /\ [][NextConc]_vars

\* the request holds a temporary directory / a temporary audio file
HoldsDir(q) == q.kind = "doc" /\ q.pc \in {"write", "extract", "fallback", "cleanup"}
HoldsAudio(q) == q.kind = "voice" /\ q.pc \in {"transcribe", "unlink"}

\* C16: requests in flight at the same time do not interact: whatever the
\* interleaving, the temporary files of a request are its own and hold its
\* own upload, every strategy and service is given the request's own bytes,
\* the text decoded for it is that of its own upload, and no two requests
\* hold the same temporary directory or file.
C16_RequestsIsolated ==
    \A r \in Requests :
        LET q == creq[r]
        IN  /\ \A i \in 1..Len(q.inputs) : q.inputs[i] = Given(TRUE, q.content)
            /\ (HoldsDir(q) /\ q.pc # "write")
                  => {f \in cfs : Under(f, q.dir) /\ ~f.isDir}
                        = {File(q.dir \o <<"/">> \o BaseName(Lower(q.filename)),
                                q.content)}
            /\ HoldsAudio(q) => File(q.path, q.content) \in cfs
            /\ (q.kind = "doc" /\ q.pc = "cleanup"
                    /\ RFind(Lower(q.filename), "x") # 0)
                  => q.text = DecodeText(q.content)
            /\ \A s \in Requests \ {r} :
                  /\ (HoldsDir(q) /\ HoldsDir(creq[s])) => q.dir # creq[s].dir
                  /\ (HoldsAudio(q) /\ HoldsAudio(creq[s])) => q.path # creq[s].path

\* two uploads of the same lowercased name and different contents were in
\* flight together, each past the reads of its strategies
C16_Witness ==
    /\ creq[1].pc = "cleanup"
    /\ creq[2].pc = "cleanup"
    /\ creq[1].filename # creq[2].filename
    /\ Lower(creq[1].filename) = Lower(creq[2].filename)
    /\ creq[1].content # creq[2].content
    /\ Len(creq[1].inputs) = 2
    /\ Len(creq[2].inputs) = 1

====
